---- MODULE Spec2Model ----
(***************************************************************************)
(* tinyrbac: a decoded policy (config) is validated, turned into the       *)
(* fixed-size Rbac arrays by buildFromConfig and then queried by check.    *)
(*                                                                         *)
(* Strings that only need equality (action names) are TLA+ strings.        *)
(* Role and resource names are also sorted by the program, so they are     *)
(* naturals ordered the way Go orders the strings they stand for:          *)
(*   0 is "" (the zero value of string), 1 is "*", 2, 3, ... are ordinary  *)
(*   names, a smaller number being a lexicographically smaller string.     *)
(* A resourceSet (uint64) is the set of its bit positions that are 1.      *)
(***************************************************************************)
EXTENDS Integers, Sequences, FiniteSets, TLC

VARIABLES c, pc, err, r, call, ret, out, c2, r2, threads, rolePos

vars == <<c, pc, err, r, call, ret, out, c2, r2, threads, rolePos>>

(* the second policy and its model, the callers of Check that run side by *)
(* side, and the position of buildFromConfig's loop over the roles        *)
second == <<c2, r2>>

stepping == <<threads, rolePos>>

-----------------------------------------------------------------------------
(* constants.go *)

maxRoles == 20

maxActions == 5

maxResources == 64

unknownAction == -1

allResources == 1

(* allResourceAccess as math.MaxInt64: bit 63 is not set *)
allResourceAccessMaxInt64 == 0 .. 62

allResourceAccess == 0 .. 63

EmptyString == 0

-----------------------------------------------------------------------------
(* Go slices helpers *)

Min(S) == CHOOSE x \in S : \A y \in S : x <= y

RECURSIVE SortSet(_)
SortSet(S) == IF S = {} THEN <<>> ELSE <<Min(S)>> \o SortSet(S \ {Min(S)})

(* slices.Sort on a slice of names *)
slicesSort(s) == SortSeq(s, LAMBDA a, b : a < b)

(* slices.Index over a fixed array indexed from 0: first position, or -1 *)
Index(arr, v) ==
    IF \E i \in DOMAIN arr : arr[i] = v
    THEN Min({i \in DOMAIN arr : arr[i] = v})
    ELSE -1

(* slices.DeleteFunc(s, func(a) a == ""): the kept elements, in order *)
RECURSIVE DeleteEmpty(_)
DeleteEmpty(s) ==
    IF s = <<>> THEN <<>>
    ELSE IF Head(s) = "" THEN DeleteEmpty(Tail(s))
    ELSE <<Head(s)>> \o DeleteEmpty(Tail(s))

(* what slices.DeleteFunc leaves in the caller's backing array: the kept   *)
(* elements moved to the front and the obsolete tail zeroed                *)
DeleteFuncBacking(s) ==
    LET kept == DeleteEmpty(s)
    IN  [i \in 1 .. Len(s) |-> IF i <= Len(kept) THEN kept[i] ELSE ""]

-----------------------------------------------------------------------------
(* utils.go *)

getHTTPActionOffset(action) ==
    CASE action = "GET" -> 0
      [] action = "POST" -> 1
      [] action = "PUT" -> 2
      [] action = "PATCH" -> 3
      [] action = "DELETE" -> 4
      [] OTHER -> unknownAction

-----------------------------------------------------------------------------
(* config validation *)

NoError == [kind |-> "nil"]

ErrNoResources == [kind |-> "no resources"]

ErrNoRoles == [kind |-> "no roles"]

errResourcesExceeded(max, actual) ==
    [kind |-> "resources exceeded", max |-> max, actual |-> actual]

errEmptyRole(index) == [kind |-> "empty role", index |-> index]

errEmptyResources(role) == [kind |-> "empty resources", role |-> role]

errUndefinedResource(resource, role) ==
    [kind |-> "undefined resource", resource |-> resource, role |-> role]

errRolesExceeded(max, actual) ==
    [kind |-> "roles exceeded", max |-> max, actual |-> actual]

(* validateResources without the skip of "" *)
validateResourcesKeepEmpty(cfg) == {cfg.Resources[i] : i \in DOMAIN cfg.Resources}

(* the map filled by the loop over c.Resources in validate *)
validateResources(cfg) ==
    {cfg.Resources[i] : i \in DOMAIN cfg.Resources} \ {EmptyString}

(* the inner loop over role.Resources: first grant that is undefined *)
RECURSIVE validateGrants(_, _, _)
validateGrants(role, resources, j) ==
    IF j > Len(role.Resources) THEN NoError
    ELSE LET re == role.Resources[j]
         IN  IF re.Name # allResources /\ re.Name \notin resources
             THEN errUndefinedResource(re.Name, role.Name)
             ELSE validateGrants(role, resources, j + 1)

(* the loop over c.Roles, from the i-th role (1-based; Go's index is i-1), *)
(* followed by the roleCount check                                         *)
RECURSIVE validateRoles(_, _, _, _)
validateRoles(cfg, resources, i, roleCount) ==
    IF i > Len(cfg.Roles)
    THEN IF roleCount > maxRoles
         THEN errRolesExceeded(maxRoles, Len(cfg.Roles))
         ELSE NoError
    ELSE LET role == cfg.Roles[i]
         IN  IF role.Name = EmptyString THEN errEmptyRole(i - 1)
             ELSE IF Len(role.Resources) = 0 THEN errEmptyResources(role.Name)
             ELSE IF validateGrants(role, resources, 1) # NoError
                  THEN validateGrants(role, resources, 1)
             ELSE validateRoles(cfg, resources, i + 1, roleCount + 1)

(* validate with the role count checked before the roles themselves *)
validateCountFirst(cfg) ==
    IF Len(cfg.Resources) = 0 THEN ErrNoResources
    ELSE IF Cardinality(validateResources(cfg)) > maxResources
         THEN errResourcesExceeded(maxResources, Len(cfg.Resources))
    ELSE IF Len(cfg.Roles) = 0 THEN ErrNoRoles
    ELSE IF Len(cfg.Roles) > maxRoles
         THEN errRolesExceeded(maxRoles, Len(cfg.Roles))
    ELSE validateRoles(cfg, validateResources(cfg), 1, 0)

validate(cfg) ==
    IF Len(cfg.Resources) = 0 THEN ErrNoResources
    ELSE IF Cardinality(validateResources(cfg)) > maxResources
         THEN errResourcesExceeded(maxResources, Len(cfg.Resources))
    ELSE IF Len(cfg.Roles) = 0 THEN ErrNoRoles
    ELSE validateRoles(cfg, validateResources(cfg), 1, 0)

-----------------------------------------------------------------------------
(* tinyrbac.go *)

(* the zero value of Rbac, as allocated by &Rbac{} *)
Rbac ==
    [accessMap |-> [i \in 0 .. (maxActions * maxRoles - 1) |-> {}],
     roleIdxMap |-> [i \in 0 .. (maxRoles - 1) |-> EmptyString],
     resourceIdxMap |-> [i \in 0 .. (maxResources - 1) |-> EmptyString]]

(* the keys of the map filled from c.Resources in buildRoleAndResourceMapping *)
mappingResources(cfg) == {cfg.Resources[i] : i \in DOMAIN cfg.Resources}

roleNames(cfg) == [i \in DOMAIN cfg.Roles |-> cfg.Roles[i].Name]

(* buildRoleAndResourceMapping with the whole roleIdxMap sorted instead of *)
(* its first i elements: the untouched "" gather at the front             *)
buildRoleAndResourceMappingSortAll(cfg, rb) ==
    LET resources == mappingResources(cfg)
        sortedResources == SortSet(resources)
        copied == [k \in 1 .. maxRoles |->
                      IF k <= Len(cfg.Roles) THEN cfg.Roles[k].Name
                      ELSE rb.roleIdxMap[k - 1]]
        sortedRoles == slicesSort(copied)
    IN  IF Cardinality(resources) > maxResources \/ Len(cfg.Roles) > maxRoles
        THEN [panicked |-> TRUE, r |-> rb]
        ELSE [panicked |-> FALSE,
              r |-> [rb EXCEPT
                  !.resourceIdxMap =
                      [i \in DOMAIN rb.resourceIdxMap |->
                          IF i < Len(sortedResources)
                          THEN sortedResources[i + 1] ELSE rb.resourceIdxMap[i]],
                  !.roleIdxMap =
                      [i \in DOMAIN rb.roleIdxMap |-> sortedRoles[i + 1]]]]

(* buildRoleAndResourceMapping without the sort of the role names *)
buildRoleAndResourceMappingUnsortedRoles(cfg, rb) ==
    LET resources == mappingResources(cfg)
        sortedResources == SortSet(resources)
    IN  IF Cardinality(resources) > maxResources \/ Len(cfg.Roles) > maxRoles
        THEN [panicked |-> TRUE, r |-> rb]
        ELSE [panicked |-> FALSE,
              r |-> [rb EXCEPT
                  !.resourceIdxMap =
                      [i \in DOMAIN rb.resourceIdxMap |->
                          IF i < Len(sortedResources)
                          THEN sortedResources[i + 1] ELSE rb.resourceIdxMap[i]],
                  !.roleIdxMap =
                      [i \in DOMAIN rb.roleIdxMap |->
                          IF i < Len(cfg.Roles)
                          THEN roleNames(cfg)[i + 1] ELSE rb.roleIdxMap[i]]]]

(* Writing past the end of a fixed array panics (index out of range). *)
buildRoleAndResourceMapping(cfg, rb) ==
    LET resources == mappingResources(cfg)
        sortedResources == SortSet(resources)
        sortedRoles == slicesSort(roleNames(cfg))
    IN  IF Cardinality(resources) > maxResources \/ Len(cfg.Roles) > maxRoles
        THEN [panicked |-> TRUE, r |-> rb]
        ELSE [panicked |-> FALSE,
              r |-> [rb EXCEPT
                  !.resourceIdxMap =
                      [i \in DOMAIN rb.resourceIdxMap |->
                          IF i < Len(sortedResources)
                          THEN sortedResources[i + 1] ELSE rb.resourceIdxMap[i]],
                  !.roleIdxMap =
                      [i \in DOMAIN rb.roleIdxMap |->
                          IF i < Len(sortedRoles)
                          THEN sortedRoles[i + 1] ELSE rb.roleIdxMap[i]]]]

(* buildActions with the named resource's bit assigned instead of OR-ed in *)
RECURSIVE buildActionsAssign(_, _, _, _, _)
buildActionsAssign(st, accessIdx, name, resourceIdx, actions) ==
    IF st.panicked \/ actions = <<>> THEN st
    ELSE LET idx == accessIdx + getHTTPActionOffset(Head(actions))
         IN  IF idx \notin DOMAIN st.accessMap
                \/ (name # allResources /\ resourceIdx < 0)
             THEN [st EXCEPT !.panicked = TRUE]
             ELSE buildActionsAssign(
                     [st EXCEPT !.accessMap[idx] =
                         IF name = allResources THEN allResourceAccess
                         ELSE {resourceIdx}],
                     accessIdx, name, resourceIdx, Tail(actions))

(* buildActions with the named resource's bit toggled ("^=") instead of *)
(* OR-ed in                                                             *)
RECURSIVE buildActionsXor(_, _, _, _, _)
buildActionsXor(st, accessIdx, name, resourceIdx, actions) ==
    IF st.panicked \/ actions = <<>> THEN st
    ELSE LET idx == accessIdx + getHTTPActionOffset(Head(actions))
         IN  IF idx \notin DOMAIN st.accessMap
                \/ (name # allResources /\ resourceIdx < 0)
             THEN [st EXCEPT !.panicked = TRUE]
             ELSE buildActionsXor(
                     [st EXCEPT !.accessMap[idx] =
                         IF name = allResources THEN allResourceAccess
                         ELSE (@ \ {resourceIdx}) \cup ({resourceIdx} \ @)],
                     accessIdx, name, resourceIdx, Tail(actions))

(* the two loops over actions: st is [panicked, accessMap]; the k-th action *)
(* of the filtered list writes one cell. An index outside the array and a   *)
(* negative shift count both panic.                                         *)
RECURSIVE buildActions(_, _, _, _, _)
buildActions(st, accessIdx, name, resourceIdx, actions) ==
    IF st.panicked \/ actions = <<>> THEN st
    ELSE LET idx == accessIdx + getHTTPActionOffset(Head(actions))
         IN  IF idx \notin DOMAIN st.accessMap
                \/ (name # allResources /\ resourceIdx < 0)
             THEN [st EXCEPT !.panicked = TRUE]
             ELSE buildActions(
                     [st EXCEPT !.accessMap[idx] =
                         IF name = allResources THEN allResourceAccess
                         ELSE @ \cup {resourceIdx}],
                     accessIdx, name, resourceIdx, Tail(actions))

(* buildGrants without slices.DeleteFunc: the actions are taken as listed *)
RECURSIVE buildGrantsKeepBlank(_, _, _, _)
buildGrantsKeepBlank(st, rb, i, j) ==
    IF st.panicked \/ j > Len(st.c.Roles[i].Resources) THEN st
    ELSE LET resource == st.c.Roles[i].Resources[j]
             accessIdx == Index(rb.roleIdxMap, st.c.Roles[i].Name) * maxActions
             written == buildActions([panicked |-> FALSE, accessMap |-> st.accessMap],
                                     accessIdx, resource.Name,
                                     Index(rb.resourceIdxMap, resource.Name),
                                     resource.Actions)
         IN  buildGrantsKeepBlank([st EXCEPT !.panicked = written.panicked,
                                             !.accessMap = written.accessMap],
                                  rb, i, j + 1)

(* the loop over role.Resources of the i-th role, from its j-th grant;  *)
(* st is [panicked, accessMap, c], c being the caller's config, whose    *)
(* action slices slices.DeleteFunc compacts in place                     *)
RECURSIVE buildGrants(_, _, _, _)
buildGrants(st, rb, i, j) ==
    IF st.panicked \/ j > Len(st.c.Roles[i].Resources) THEN st
    ELSE LET resource == st.c.Roles[i].Resources[j]
             accessIdx == Index(rb.roleIdxMap, st.c.Roles[i].Name) * maxActions
             actions == DeleteEmpty(resource.Actions)
             deleted == [st EXCEPT !.c.Roles[i].Resources[j].Actions =
                                      DeleteFuncBacking(resource.Actions)]
             written == buildActions([panicked |-> FALSE, accessMap |-> st.accessMap],
                                     accessIdx, resource.Name,
                                     Index(rb.resourceIdxMap, resource.Name), actions)
         IN  buildGrants([deleted EXCEPT !.panicked = written.panicked,
                                         !.accessMap = written.accessMap],
                         rb, i, j + 1)

RECURSIVE buildRoles(_, _, _)
buildRoles(st, rb, i) ==
    IF st.panicked \/ i > Len(st.c.Roles) THEN st
    ELSE buildRoles(buildGrants(st, rb, i, 1), rb, i + 1)

(* buildFromConfig: [panicked, r, c]; r is the returned model when the  *)
(* build did not panic, c is the caller's config after the call         *)
buildFromConfig(cfg) ==
    LET mapped == buildRoleAndResourceMapping(cfg, Rbac)
        built == buildRoles([panicked |-> FALSE, accessMap |-> mapped.r.accessMap,
                             c |-> cfg], mapped.r, 1)
    IN  IF mapped.panicked THEN [panicked |-> TRUE, r |-> mapped.r, c |-> cfg]
        ELSE [panicked |-> built.panicked,
              r |-> [mapped.r EXCEPT !.accessMap = built.accessMap],
              c |-> built.c]

errUnknownRole(role) == [kind |-> "unknown role", name |-> role]

errUnknownResource(resource) == [kind |-> "unknown resource", name |-> resource]

Panic == [kind |-> "panic"]

Result(access, e) == [kind |-> "return", access |-> access, err |-> e]

check(rb, role, resource, action) ==
    LET roleIdx == Index(rb.roleIdxMap, role)
        resourceIdx == Index(rb.resourceIdxMap, resource)
        accessIdx == roleIdx * maxActions + getHTTPActionOffset(action)
    IN  IF roleIdx = -1 THEN Result(FALSE, errUnknownRole(role))
        ELSE IF resourceIdx = -1 THEN Result(FALSE, errUnknownResource(resource))
        ELSE IF accessIdx \notin DOMAIN rb.accessMap THEN Panic
        ELSE Result(resourceIdx \in rb.accessMap[accessIdx], NoError)

-----------------------------------------------------------------------------
(* The decoded configs the model starts from. *)

MaxResourcesLen == 2

MaxRolesLen == 2

MaxGrants == 2

FirstFiller == 10

(* sequences over S of length at most n *)
SeqsUpTo(S, n) == UNION {[1 .. k -> S] : k \in 0 .. n}

(* k further names, FirstFiller and up, declared in descending order *)
Filler(k) == [i \in 1 .. k |-> FirstFiller + k - i]

(* k further roles, each granted GET on every resource *)
FillerRoles(k) ==
    [i \in 1 .. k |->
        [Name |-> Filler(k)[i],
         Resources |-> <<[Name |-> allResources, Actions |-> <<"GET">>]>>]]

RECURSIVE TotalGrants(_)
TotalGrants(roles) ==
    IF roles = <<>> THEN 0
    ELSE Len(Head(roles).Resources) + TotalGrants(Tail(roles))

(* up to MaxRolesLen roles with up to MaxGrants grants between them, *)
(* followed by k filler roles                                        *)
RoleLists(names, grants, pads) ==
    {core \o FillerRoles(k) :
        core \in {roles \in SeqsUpTo([Name : names,
                                      Resources : SeqsUpTo(grants, MaxGrants)],
                                     MaxRolesLen) :
                     TotalGrants(roles) <= MaxGrants},
        k \in pads}

(* up to MaxResourcesLen names followed by k filler names *)
ResourceLists(pads) ==
    {core \o Filler(k) : core \in SeqsUpTo({EmptyString, 2, 3}, MaxResourcesLen),
                         k \in pads}

ActionLists == {<<"GET">>, <<"", "DELETE">>, <<"HEAD">>}

(* configs for the whole pipeline: the grants vary in their actions *)
Configs ==
    [Resources : ResourceLists({0, maxResources - 1}),
     Roles : RoleLists({2, 3},
                       [Name : {allResources, 2, 3}, Actions : ActionLists],
                       {0, maxRoles - MaxRolesLen})]

(* configs for validate alone, which never reads the actions: the names *)
(* and the sizes vary                                                    *)
ValidateConfigs ==
    [Resources : ResourceLists({0, maxResources - 1, maxResources}),
     Roles : RoleLists({EmptyString, 2, 3},
                       [Name : {allResources, EmptyString, 2, 3}, Actions : {<<"GET">>}],
                       {0, maxRoles - 1})]

QueryNames == {EmptyString, 2, 3, FirstFiller}

QueryActions == {"GET", "POST", "PUT", "PATCH", "DELETE", "HEAD"}

-----------------------------------------------------------------------------
(* The state machine: NewFromJsonConfig / NewFromYamlConfig run validate and *)
(* then buildFromConfig on the decoded config; Check queries the model.      *)

NoRbac == [kind |-> "nil"]

NoCall == <<>>

NoReturn == [kind |-> "none"]

NoConfig == [kind |-> "nil"]

NoThreads == <<>>

(* fmt.Errorf("<prefix>: %w", cause) *)
wrapError(prefix, cause) == [kind |-> prefix, cause |-> cause]

(* the pair of model and error a constructor returns *)
Constructed(model, e) == [kind |-> "return", model |-> model, err |-> e]

Init ==
    /\ c \in Configs
    /\ pc = "decoded"
    /\ err = NoError
    /\ r = NoRbac
    /\ call = NoCall
    /\ ret = NoReturn
    /\ out = NoReturn
    /\ c2 = NoConfig
    /\ r2 = NoRbac
    /\ threads = NoThreads
    /\ rolePos = 0

(* Validate with the build started whatever validate returned *)
ValidateThenBuildAnyway ==
    /\ pc = "decoded"
    /\ err' = validate(c)
    /\ pc' = "validated"
    /\ out' = out
    /\ UNCHANGED <<c, r, call, ret, second, stepping>>

Validate ==
    /\ pc = "decoded"
    /\ err' = validate(c)
    /\ pc' = IF validate(c) = NoError THEN "validated" ELSE "failed"
    /\ out' = IF validate(c) = NoError THEN out
              ELSE Constructed(NoRbac, wrapError("validate config", validate(c)))
    /\ UNCHANGED <<c, r, call, ret, second, stepping>>

Build ==
    /\ pc = "validated"
    /\ LET b == buildFromConfig(c)
       IN  /\ pc' = IF b.panicked THEN "panicked" ELSE "built"
           /\ r' = IF b.panicked THEN r ELSE b.r
           /\ c' = b.c
           /\ out' = IF b.panicked THEN out ELSE Constructed(b.r, NoError)
    /\ UNCHANGED <<err, call, ret, second, stepping>>

Check ==
    /\ pc = "built"
    /\ call = NoCall
    /\ \E role \in QueryNames, resource \in QueryNames, action \in QueryActions :
          /\ call' = <<role, resource, action>>
          /\ ret' = check(r, role, resource, action)
          /\ pc' = IF check(r, role, resource, action) = Panic
                   THEN "panicked" ELSE "built"
    /\ UNCHANGED <<c, err, r, out, second, stepping>>

(* the caller takes the returned (bool, error) and may query again *)
Return ==
    /\ pc = "built"
    /\ call # NoCall
    /\ call' = NoCall
    /\ ret' = NoReturn
    /\ UNCHANGED <<c, pc, err, r, out, second, stepping>>

Next == Validate \/ Build \/ Check \/ Return

Spec == Init /\ [][Next]_vars

(* The constructor from its first line: newConfigFromJson /                *)
(* newConfigFromYaml read the file at path and decode it. What the file   *)
(* system holds at path is missing, unreadable, malformed or a text that  *)
(* decodes to a config.                                                   *)
ErrConfigFileNotProvided == [kind |-> "config file path is empty"]

errConfigNotFound(path) == [kind |-> "open config", path |-> path]

errConfigRead(path) == [kind |-> "read config file", path |-> path]

errConfigUnmarshal(path) == [kind |-> "unmarshal config", path |-> path]

newConfig(path, file) ==
    IF path = "" THEN [c |-> NoConfig, err |-> ErrConfigFileNotProvided]
    ELSE IF file.state = "missing"
         THEN [c |-> NoConfig, err |-> errConfigNotFound(path)]
    ELSE IF file.state = "unreadable"
         THEN [c |-> NoConfig, err |-> errConfigRead(path)]
    ELSE IF file.state = "malformed"
         THEN [c |-> NoConfig, err |-> errConfigUnmarshal(path)]
    ELSE [c |-> file.config, err |-> NoError]

Paths == {"", "policy"}

StepRolesLen == 2

StepResourcesLen == 2

(* roles with one grant: DELETE on "*", or on a named resource a blank, an *)
(* unrecognized action and DELETE                                          *)
PermutedRoles ==
    [Name : {2, 3, 4},
     Resources : {<<[Name |-> allResources, Actions |-> <<"DELETE">>]>>,
                  <<[Name |-> 2, Actions |-> <<"", "HEAD", "DELETE">>]>>}]

StepConfigs ==
    [Resources : SeqsUpTo({EmptyString, 2, 3}, StepResourcesLen),
     Roles : SeqsUpTo(PermutedRoles, StepRolesLen)]

Files ==
    {[state |-> "missing", config |-> NoConfig],
     [state |-> "unreadable", config |-> NoConfig],
     [state |-> "malformed", config |-> NoConfig]}
        \cup {[state |-> "text", config |-> cfg] : cfg \in StepConfigs}

Decode ==
    /\ pc = "start"
    /\ \E path \in Paths, file \in Files :
          LET d == newConfig(path, file)
          IN  /\ c' = d.c
              /\ err' = d.err
              /\ pc' = IF d.err = NoError THEN "decoded" ELSE "failed"
              /\ out' = IF d.err = NoError THEN out
                        ELSE Constructed(NoRbac, wrapError("read config", d.err))
    /\ UNCHANGED <<r, call, ret, second, stepping>>

InitNew ==
    /\ c = NoConfig
    /\ pc = "start"
    /\ err = NoError
    /\ r = NoRbac
    /\ call = NoCall
    /\ ret = NoReturn
    /\ out = NoReturn
    /\ c2 = NoConfig
    /\ r2 = NoRbac
    /\ threads = NoThreads
    /\ rolePos = 0

NextNew == Decode \/ Validate \/ Build

SpecNew == InitNew /\ [][NextNew]_vars

(* A second construction, from a second policy file, once the first model *)
(* is built: the whole of NewFromJsonConfig on c2.                        *)
New2 ==
    /\ pc = "built"
    /\ call = NoCall
    /\ c2 # NoConfig
    /\ LET e == validate(c2)
           b == buildFromConfig(c2)
       IN  /\ pc' = IF e # NoError THEN "failed again"
                    ELSE IF b.panicked THEN "panicked again"
                    ELSE "built again"
           /\ r2' = IF e = NoError /\ ~b.panicked THEN b.r ELSE r2
           /\ c2' = IF e = NoError THEN b.c ELSE c2
    /\ UNCHANGED <<c, err, r, call, ret, out, stepping>>

NextPair == Validate \/ Build \/ New2

PairRolesLen == 3

(* the resource lists of the policies built twice: one name, two names in *)
(* descending order, a name and ""                                        *)
PairResources == {<<2>>, <<3, 2>>, <<2, EmptyString>>}

(* every order of the elements of a sequence *)
Reorderings(s) ==
    {[k \in DOMAIN s |-> s[p[k]]] :
        p \in {q \in [DOMAIN s -> DOMAIN s] :
                  \A x, y \in DOMAIN s : x # y => q[x] # q[y]}}

(* the policies that list the roles and the resources of cfg in any order *)
Reordered(cfg) ==
    [Resources : Reorderings(cfg.Resources), Roles : Reorderings(cfg.Roles)]

PermutedConfigs ==
    [Resources : PairResources, Roles : SeqsUpTo(PermutedRoles, PairRolesLen)]

InitPermuted ==
    /\ c \in PermutedConfigs
    /\ c2 \in Reordered(c)
    /\ pc = "decoded"
    /\ err = NoError
    /\ r = NoRbac
    /\ call = NoCall
    /\ ret = NoReturn
    /\ out = NoReturn
    /\ r2 = NoRbac
    /\ threads = NoThreads
    /\ rolePos = 0

SpecPermuted == InitPermuted /\ [][NextPair]_vars

(* Callers of Check that run side by side on the built model, each at its *)
(* own place in check: the scan of roleIdxMap, the scan of resourceIdxMap *)
(* and the read of the accessMap cell.                                    *)
NumCallers == 2

Callers == 1 .. NumCallers

Idle == [at |-> "idle"]

CallerRoles == {EmptyString, 2, 3}

CallerResources == {2, 4}

CallerActions == {"GET", "HEAD"}

CallCheck(t) ==
    /\ pc = "built"
    /\ threads[t] = Idle
    /\ \E role \in CallerRoles, resource \in CallerResources,
          action \in CallerActions :
          threads' = [threads EXCEPT ![t] =
                         [at |-> "roles", role |-> role, resource |-> resource,
                          action |-> action, roleIdx |-> -1, resourceIdx |-> -1,
                          ret |-> NoReturn]]
    /\ UNCHANGED <<c, pc, err, r, call, ret, out, second, rolePos>>

ScanRoles(t) ==
    /\ pc = "built"
    /\ threads[t].at = "roles"
    /\ LET roleIdx == Index(r.roleIdxMap, threads[t].role)
       IN  threads' = [threads EXCEPT ![t] =
               IF roleIdx = -1
               THEN [@ EXCEPT !.at = "returned",
                              !.ret = Result(FALSE, errUnknownRole(threads[t].role))]
               ELSE [@ EXCEPT !.at = "resources", !.roleIdx = roleIdx]]
    /\ UNCHANGED <<c, pc, err, r, call, ret, out, second, rolePos>>

ScanResources(t) ==
    /\ pc = "built"
    /\ threads[t].at = "resources"
    /\ LET resourceIdx == Index(r.resourceIdxMap, threads[t].resource)
       IN  threads' = [threads EXCEPT ![t] =
               IF resourceIdx = -1
               THEN [@ EXCEPT !.at = "returned",
                              !.ret = Result(FALSE, errUnknownResource(threads[t].resource))]
               ELSE [@ EXCEPT !.at = "access", !.resourceIdx = resourceIdx]]
    /\ UNCHANGED <<c, pc, err, r, call, ret, out, second, rolePos>>

(* ReadAccess with "&=" for "&": the masked cell is stored back *)
ReadAccessAndStore(t) ==
    /\ pc = "built"
    /\ threads[t].at = "access"
    /\ LET accessIdx == threads[t].roleIdx * maxActions
                            + getHTTPActionOffset(threads[t].action)
       IN  IF accessIdx \notin DOMAIN r.accessMap
           THEN /\ pc' = "panicked"
                /\ threads' = [threads EXCEPT ![t].at = "panicked", ![t].ret = Panic]
                /\ r' = r
           ELSE /\ pc' = pc
                /\ threads' = [threads EXCEPT
                       ![t].at = "returned",
                       ![t].ret = Result(threads[t].resourceIdx
                                            \in r.accessMap[accessIdx], NoError)]
                /\ r' = [r EXCEPT !.accessMap[accessIdx] =
                                      @ \cap {threads[t].resourceIdx}]
    /\ UNCHANGED <<c, err, call, ret, out, second, rolePos>>

(* an index outside accessMap panics, which ends the process *)
ReadAccess(t) ==
    /\ pc = "built"
    /\ threads[t].at = "access"
    /\ LET accessIdx == threads[t].roleIdx * maxActions
                            + getHTTPActionOffset(threads[t].action)
       IN  IF accessIdx \notin DOMAIN r.accessMap
           THEN /\ pc' = "panicked"
                /\ threads' = [threads EXCEPT ![t].at = "panicked", ![t].ret = Panic]
                /\ r' = r
           ELSE /\ pc' = pc
                /\ threads' = [threads EXCEPT
                       ![t].at = "returned",
                       ![t].ret = Result(threads[t].resourceIdx
                                            \in r.accessMap[accessIdx], NoError)]
                /\ r' = r
    /\ UNCHANGED <<c, err, call, ret, out, second, rolePos>>

(* the caller takes the result and may call again *)
Finish(t) ==
    /\ pc = "built"
    /\ threads[t].at = "returned"
    /\ threads' = [threads EXCEPT ![t] = Idle]
    /\ UNCHANGED <<c, pc, err, r, call, ret, out, second, rolePos>>

(* roles with one grant, GET on "*" or an unrecognized action on a named *)
(* resource                                                              *)
ConcurrentRoles ==
    [Name : {2, 3},
     Resources : {<<[Name |-> allResources, Actions |-> <<"GET">>]>>,
                  <<[Name |-> 2, Actions |-> <<"HEAD">>]>>}]

ConcurrentConfigs ==
    [Resources : {<<2>>}, Roles : SeqsUpTo(ConcurrentRoles, 2) \ {<<>>}]

InitConcurrent ==
    /\ c \in ConcurrentConfigs
    /\ pc = "decoded"
    /\ err = NoError
    /\ r = NoRbac
    /\ call = NoCall
    /\ ret = NoReturn
    /\ out = NoReturn
    /\ c2 = NoConfig
    /\ r2 = NoRbac
    /\ threads = [t \in Callers |-> Idle]
    /\ rolePos = 0

NextConcurrent ==
    \/ Validate
    \/ Build
    \/ \E t \in Callers : CallCheck(t)
    \/ \E t \in Callers : ScanRoles(t)
    \/ \E t \in Callers : ScanResources(t)
    \/ \E t \in Callers : ReadAccess(t)
    \/ \E t \in Callers : Finish(t)

SpecConcurrent == InitConcurrent /\ [][NextConcurrent]_vars

BlankConfigs ==
    [Resources : PairResources, Roles : SeqsUpTo(PermutedRoles, StepRolesLen)]

(* s with x put in at position p *)
InsertAt(s, p, x) == SubSeq(s, 1, p - 1) \o <<x>> \o SubSeq(s, p, Len(s))

BlankActionLists == {<<>>, <<"">>, <<"", "">>}

(* cfg with one more grant, on "*" or on a listed non-empty resource, whose *)
(* actions are none or blank, at any place of any role                      *)
WithBlankGrant(cfg) ==
    UNION {{[cfg EXCEPT !.Roles[i].Resources =
                 InsertAt(@, p, [Name |-> n, Actions |-> a])] :
              p \in 1 .. (Len(cfg.Roles[i].Resources) + 1),
              n \in {allResources} \cup (mappingResources(cfg) \ {EmptyString}),
              a \in BlankActionLists} : i \in DOMAIN cfg.Roles}

(* cfg with one more "" at any place of the actions of any grant *)
WithBlankAction(cfg) ==
    UNION {UNION {{[cfg EXCEPT !.Roles[i].Resources[j].Actions = InsertAt(@, p, "")] :
                     p \in 1 .. (Len(cfg.Roles[i].Resources[j].Actions) + 1)} :
                  j \in DOMAIN cfg.Roles[i].Resources} : i \in DOMAIN cfg.Roles}

InitBlanked ==
    /\ c \in BlankConfigs
    /\ c2 \in WithBlankGrant(c) \cup WithBlankAction(c)
    /\ pc = "decoded"
    /\ err = NoError
    /\ r = NoRbac
    /\ call = NoCall
    /\ ret = NoReturn
    /\ out = NoReturn
    /\ r2 = NoRbac
    /\ threads = NoThreads
    /\ rolePos = 0

SpecBlanked == InitBlanked /\ [][NextPair]_vars

(* Policies whose grants list recognized actions: a role with up to       *)
(* MaxRegrants grants, alone or followed by a role with one grant, of the *)
(* same name or of a smaller one.                                         *)
MaxRegrants == 3

RegrantGrants ==
    {[Name |-> allResources, Actions |-> <<"GET">>],
     [Name |-> 2, Actions |-> <<"GET">>],
     [Name |-> 2, Actions |-> <<"DELETE", "GET">>],
     [Name |-> 3, Actions |-> <<"DELETE", "GET">>]}

RegrantConfigs ==
    [Resources : {<<3, 2>>},
     Roles : {<<[Name |-> 3, Resources |-> g]>> \o rest :
                 g \in SeqsUpTo(RegrantGrants, MaxRegrants) \ {<<>>},
                 rest \in {<<>>} \cup
                          {<<[Name |-> n,
                              Resources |-> <<[Name |-> allResources,
                                               Actions |-> <<"DELETE", "GET">>]>>]>> :
                              n \in {2, 3}}}]

(* cfg with the grants of one role in any order *)
GrantsReordered(cfg) ==
    UNION {{[cfg EXCEPT !.Roles[i].Resources = g] :
              g \in Reorderings(cfg.Roles[i].Resources)} : i \in DOMAIN cfg.Roles}

(* cfg with the actions of one grant in any order *)
ActionsReordered(cfg) ==
    UNION {UNION {{[cfg EXCEPT !.Roles[i].Resources[j].Actions = a] :
                     a \in Reorderings(cfg.Roles[i].Resources[j].Actions)} :
                  j \in DOMAIN cfg.Roles[i].Resources} : i \in DOMAIN cfg.Roles}

(* cfg with one grant of a role listed once more, at any place *)
GrantRepeated(cfg) ==
    UNION {{[cfg EXCEPT !.Roles[i].Resources = InsertAt(@, p, @[j])] :
              j \in DOMAIN cfg.Roles[i].Resources,
              p \in 1 .. (Len(cfg.Roles[i].Resources) + 1)} : i \in DOMAIN cfg.Roles}

InitRegranted ==
    /\ c \in RegrantConfigs
    /\ c2 \in GrantsReordered(c) \cup ActionsReordered(c) \cup GrantRepeated(c)
    /\ pc = "decoded"
    /\ err = NoError
    /\ r = NoRbac
    /\ call = NoCall
    /\ ret = NoReturn
    /\ out = NoReturn
    /\ r2 = NoRbac
    /\ threads = NoThreads
    /\ rolePos = 0

SpecRegranted == InitRegranted /\ [][NextPair]_vars

(* buildFromConfig one role at a time: the call of                        *)
(* buildRoleAndResourceMapping, then one turn of the loop over c.Roles    *)
(* per step (rolePos is the role the next turn takes, from 1), then the   *)
(* return. A turn that panics leaves what it had written.                 *)
BuildMapping ==
    /\ pc = "validated"
    /\ LET mapped == buildRoleAndResourceMapping(c, Rbac)
       IN  /\ pc' = IF mapped.panicked THEN "panicked" ELSE "building"
           /\ r' = IF mapped.panicked THEN r ELSE mapped.r
           /\ rolePos' = IF mapped.panicked THEN rolePos ELSE 1
    /\ UNCHANGED <<c, err, call, ret, out, second, threads>>

BuildRole ==
    /\ pc = "building"
    /\ rolePos \in DOMAIN c.Roles
    /\ LET st == buildGrants([panicked |-> FALSE, accessMap |-> r.accessMap,
                              c |-> c], r, rolePos, 1)
       IN  /\ pc' = IF st.panicked THEN "panicked" ELSE "building"
           /\ r' = [r EXCEPT !.accessMap = st.accessMap]
           /\ c' = st.c
           /\ rolePos' = IF st.panicked THEN rolePos ELSE rolePos + 1
    /\ UNCHANGED <<err, call, ret, out, second, threads>>

BuildReturn ==
    /\ pc = "building"
    /\ rolePos \notin DOMAIN c.Roles
    /\ pc' = "built"
    /\ out' = Constructed(r, NoError)
    /\ rolePos' = 0
    /\ UNCHANGED <<c, err, r, call, ret, second, threads>>

InitSteps ==
    /\ c \in StepConfigs
    /\ pc = "decoded"
    /\ err = NoError
    /\ r = NoRbac
    /\ call = NoCall
    /\ ret = NoReturn
    /\ out = NoReturn
    /\ c2 = NoConfig
    /\ r2 = NoRbac
    /\ threads = NoThreads
    /\ rolePos = 0

NextSteps == Validate \/ BuildMapping \/ BuildRole \/ BuildReturn

SpecSteps == InitSteps /\ [][NextSteps]_vars

(* The whole pipeline over the policies of up to PairRolesLen roles, where *)
(* roles of the same name may be followed by a role of another name.      *)
InitDuplicates ==
    /\ c \in PermutedConfigs
    /\ pc = "decoded"
    /\ err = NoError
    /\ r = NoRbac
    /\ call = NoCall
    /\ ret = NoReturn
    /\ out = NoReturn
    /\ c2 = NoConfig
    /\ r2 = NoRbac
    /\ threads = NoThreads
    /\ rolePos = 0

SpecDuplicates == InitDuplicates /\ [][Next]_vars

(* validate alone, over configs that vary in names and sizes *)
InitValidate ==
    /\ c \in ValidateConfigs
    /\ pc = "decoded"
    /\ err = NoError
    /\ r = NoRbac
    /\ call = NoCall
    /\ ret = NoReturn
    /\ out = NoReturn
    /\ c2 = NoConfig
    /\ r2 = NoRbac
    /\ threads = NoThreads
    /\ rolePos = 0

NextValidate == Validate

SpecValidate == InitValidate /\ [][NextValidate]_vars

-----------------------------------------------------------------------------
(* What the properties below say about a config, read off the config itself. *)

HTTPActions == {"GET", "POST", "PUT", "PATCH", "DELETE"}

Elems(s) == {s[i] : i \in DOMAIN s}

(* the resource names of the config with duplicates and "" removed *)
UniqueResources(cfg) == Elems(cfg.Resources) \ {EmptyString}

DeclaredRole(cfg, name) == \E i \in DOMAIN cfg.Roles : cfg.Roles[i].Name = name

(* some grant of a role called role lists action for resource or for "*" *)
Granted(cfg, role, resource, action) ==
    \E i \in DOMAIN cfg.Roles :
        /\ cfg.Roles[i].Name = role
        /\ \E j \in DOMAIN cfg.Roles[i].Resources :
              /\ cfg.Roles[i].Resources[j].Name \in {resource, allResources}
              /\ action \in Elems(cfg.Roles[i].Resources[j].Actions)

(* every action of every grant is one of the five HTTP actions or "" *)
RecognizedActionsOnly(cfg) ==
    \A i \in DOMAIN cfg.Roles :
        \A j \in DOMAIN cfg.Roles[i].Resources :
            Elems(cfg.Roles[i].Resources[j].Actions) \subseteq HTTPActions \cup {""}

Checked == pc \in {"built", "panicked"} /\ call # NoCall

-----------------------------------------------------------------------------
(* C1: for an accepted config whose actions are all recognized, a check of  *)
(* a declared role, a non-empty declared resource and one of the five       *)
(* actions returns (true, nil) exactly when some grant of a role with that  *)
(* name lists the action for the resource or for "*", else (false, nil).    *)
C1_CheckMatchesGrants ==
    (/\ Checked
     /\ RecognizedActionsOnly(c)
     /\ DeclaredRole(c, call[1])
     /\ call[2] \in UniqueResources(c)
     /\ call[3] \in HTTPActions)
    => ret = Result(Granted(c, call[1], call[2], call[3]), NoError)

(* a role with grants on two different resources was asked about the first *)
(* one with a recognized action and got (true, nil)                        *)
C1_Witness ==
    /\ Checked
    /\ RecognizedActionsOnly(c)
    /\ Len(c.Roles) = 1
    /\ Len(c.Roles[1].Resources) = 2
    /\ c.Roles[1].Resources[1].Name = 2
    /\ c.Roles[1].Resources[2].Name = 3
    /\ call[1] = c.Roles[1].Name
    /\ call[2] = 2
    /\ call[3] \in HTTPActions
    /\ ret = Result(TRUE, NoError)

(* C2: a check of a declared role and a declared resource with an action    *)
(* that is none of GET, POST, PUT, PATCH, DELETE never returns true.        *)
C2_UnknownActionNeverGrants ==
    (/\ Checked
     /\ DeclaredRole(c, call[1])
     /\ call[2] \in UniqueResources(c)
     /\ call[3] \notin HTTPActions)
    => ~(ret.kind = "return" /\ ret.access)

(* C3: check returns a (bool, error) for every triple and never panics: the *)
(* index it reads lies within the access map.                               *)
C3_CheckNeverPanics == Checked => ret.kind = "return"

(* C4: buildFromConfig completes on every config validate accepts: no write *)
(* leaves the fixed arrays and no shift count is negative.                  *)
C4_BuildNeverPanics == ~(pc = "panicked" /\ call = NoCall)

(* C5: check of a name that no role has returns (false, unknown role), and  *)
(* check of a declared role with a name that is no non-empty resource of    *)
(* the config returns (false, unknown resource); for every string, "" too.  *)
C5_UnknownNamesAreErrors ==
    Checked =>
        /\ ~DeclaredRole(c, call[1])
              => ret = Result(FALSE, errUnknownRole(call[1]))
        /\ (DeclaredRole(c, call[1]) /\ call[2] \notin UniqueResources(c))
              => ret = Result(FALSE, errUnknownResource(call[2]))

(* C6: validate returns "no resources" whenever the resources, with ""      *)
(* dropped and duplicates removed, are none.                                *)
C6_NoResourcesWhenNoneNamed ==
    (pc # "decoded" /\ UniqueResources(c) = {}) => err = ErrNoResources

(* C7: validate returns "resources exceeded" exactly when the unique        *)
(* non-empty resource names are more than maxResources, and the error       *)
(* reports max = maxResources and actual = that number of unique names.     *)
C7_ResourcesExceededReportsUnique ==
    pc # "decoded" =>
        /\ err.kind = "resources exceeded"
              <=> Cardinality(UniqueResources(c)) > maxResources
        /\ err.kind = "resources exceeded"
              => err = errResourcesExceeded(maxResources,
                                            Cardinality(UniqueResources(c)))

(* the grant of a role fails validation: it names neither "*" nor one of  *)
(* the unique non-empty resources                                          *)
UndefinedGrant(cfg, re) ==
    re.Name # allResources /\ re.Name \notin UniqueResources(cfg)

BadRole(cfg, role) ==
    \/ role.Name = EmptyString
    \/ Len(role.Resources) = 0
    \/ \E j \in DOMAIN role.Resources : UndefinedGrant(cfg, role.Resources[j])

(* the error of the role at position i (from 1), its own checks in order *)
RoleError(cfg, i) ==
    LET role == cfg.Roles[i]
        first == CHOOSE j \in DOMAIN role.Resources :
                    /\ UndefinedGrant(cfg, role.Resources[j])
                    /\ \A k \in 1 .. (j - 1) : ~UndefinedGrant(cfg, role.Resources[k])
    IN  IF role.Name = EmptyString THEN errEmptyRole(i - 1)
        ELSE IF Len(role.Resources) = 0 THEN errEmptyResources(role.Name)
        ELSE errUndefinedResource(role.Resources[first].Name, role.Name)

FirstBadRole(cfg) ==
    CHOOSE i \in DOMAIN cfg.Roles :
        /\ BadRole(cfg, cfg.Roles[i])
        /\ \A k \in 1 .. (i - 1) : ~BadRole(cfg, cfg.Roles[k])

(* C8: validate is fail-fast in a fixed order: no resources, resources     *)
(* exceeded, no roles, then the first role in declaration order that fails *)
(* (empty name with its position, then no grants, then its first undefined *)
(* resource), and roles exceeded (max, role count) only after every role   *)
(* passed. The resources checks are taken as validate makes them (an empty *)
(* list; more than maxResources unique non-empty names).                   *)
C8_ValidateFailFastOrder ==
    pc # "decoded" =>
        IF Len(c.Resources) = 0 THEN err = ErrNoResources
        ELSE IF Cardinality(UniqueResources(c)) > maxResources
             THEN err.kind = "resources exceeded"
        ELSE IF Len(c.Roles) = 0 THEN err = ErrNoRoles
        ELSE IF \E i \in DOMAIN c.Roles : BadRole(c, c.Roles[i])
             THEN err = RoleError(c, FirstBadRole(c))
        ELSE IF Len(c.Roles) > maxRoles
             THEN err = errRolesExceeded(maxRoles, Len(c.Roles))
        ELSE err = NoError

(* more than maxRoles roles, the second of them without grants: the role's *)
(* own error is reported, not roles exceeded                               *)
C8_Witness ==
    /\ pc = "failed"
    /\ Len(c.Roles) > maxRoles
    /\ ~BadRole(c, c.Roles[1])
    /\ Len(c.Roles[2].Resources) = 0
    /\ err = errEmptyResources(c.Roles[2].Name)

(* C9: whenever validate accepts a config, no two of its roles have the    *)
(* same name.                                                              *)
C9_AcceptedRolesDistinct ==
    pc = "validated" =>
        \A i, j \in DOMAIN c.Roles : i # j => c.Roles[i].Name # c.Roles[j].Name

(* C10: whenever validate returns nil, the config has between 1 and        *)
(* maxRoles roles, each with a non-empty name and at least one grant,      *)
(* every grant that is not on "*" names a non-empty resource listed in the *)
(* config, and the unique non-empty resources are at most maxResources.    *)
C10_AcceptedConfigIsValid ==
    pc = "validated" =>
        /\ Len(c.Roles) \in 1 .. maxRoles
        /\ \A i \in DOMAIN c.Roles :
              /\ c.Roles[i].Name # EmptyString
              /\ Len(c.Roles[i].Resources) >= 1
              /\ \A j \in DOMAIN c.Roles[i].Resources :
                    c.Roles[i].Resources[j].Name # allResources
                        => /\ c.Roles[i].Resources[j].Name # EmptyString
                           /\ c.Roles[i].Resources[j].Name \in Elems(c.Resources)
        /\ Cardinality(UniqueResources(c)) <= maxResources

(* an accepted config at both limits: maxRoles roles, maxResources unique  *)
(* names beside a "", and a grant on a named resource                      *)
C10_Witness ==
    /\ pc = "validated"
    /\ Len(c.Roles) = maxRoles
    /\ Cardinality(UniqueResources(c)) = maxResources
    /\ EmptyString \in Elems(c.Resources)
    /\ \E j \in DOMAIN c.Roles[1].Resources :
           c.Roles[1].Resources[j].Name \notin {allResources, EmptyString}

(* C11: construction is all-or-nothing. When decoding or validate fails the *)
(* constructor returns a nil model with the error wrapped as "read config"  *)
(* or "validate config" and buildFromConfig is not run (no model exists);   *)
(* a model is returned only with a nil error.                               *)
C11_ConstructionAllOrNothing ==
    /\ err # NoError =>
           /\ r = NoRbac
           /\ out = Constructed(NoRbac,
                       wrapError(IF c = NoConfig THEN "read config"
                                 ELSE "validate config", err))
    /\ (out # NoReturn /\ out.model # NoRbac) =>
           /\ out.err = NoError
           /\ err = NoError
           /\ out.model = r

(* a decoded config that validate rejects for an undefined resource: the   *)
(* constructor has returned nil and the wrapped error                      *)
C11_Witness ==
    /\ pc = "failed"
    /\ c # NoConfig
    /\ err.kind = "undefined resource"
    /\ out = Constructed(NoRbac, wrapError("validate config", err))

(* C12: the build does not depend on the declaration order: once a policy   *)
(* is built, the same policy with its roles and its resources listed in any *)
(* other order is accepted and built too, into a model with the same        *)
(* roleIdxMap, resourceIdxMap and accessMap.                                *)
C12_BuildOrderIndependent ==
    pc \in {"failed again", "panicked again", "built again"} =>
        /\ pc = "built again"
        /\ r2.roleIdxMap = r.roleIdxMap
        /\ r2.resourceIdxMap = r.resourceIdxMap
        /\ r2.accessMap = r.accessMap

(* three roles with different names and two resources, both listed in     *)
(* another order the second time, a role granted on a named resource      *)
C12_Witness ==
    /\ pc = "built again"
    /\ Len(c.Roles) = 3
    /\ c.Roles[1].Name > c.Roles[2].Name
    /\ c.Roles[2].Name > c.Roles[3].Name
    /\ c2.Roles[1].Name = c.Roles[3].Name
    /\ c2.Roles[3].Name = c.Roles[2].Name
    /\ Len(c.Resources) = 2
    /\ c.Resources[1] > c.Resources[2]
    /\ c2.Resources[1] < c2.Resources[2]
    /\ \E k \in DOMAIN r.accessMap : r.accessMap[k] = {1}

(* C13: after a build the first n slots of resourceIdxMap hold the resource *)
(* names of the config with duplicates and "" removed, in ascending order,  *)
(* n being their number: the smallest non-empty name has index 0 and ""     *)
(* takes no index.                                                          *)
C13_ResourceIndexSortedUnique ==
    r # NoRbac =>
        LET names == SortSet(UniqueResources(c))
        IN  \A k \in 1 .. Len(names) : r.resourceIdxMap[k - 1] = names[k]

(* how many slots of a fixed array, or elements of a slice, satisfy Test *)
CountOf(f, Test(_)) == Cardinality({k \in DOMAIN f : Test(f[k])})

(* C14: after the build of an accepted config with m roles, the first m     *)
(* slots of roleIdxMap hold the role names of the config in ascending       *)
(* order, none of them "", and every slot from m on holds "".               *)
C14_RoleIndexSortedThenEmpty ==
    r # NoRbac =>
        LET m == Len(c.Roles)
        IN  /\ \A k \in 0 .. (m - 2) : r.roleIdxMap[k] <= r.roleIdxMap[k + 1]
            /\ \A k \in 0 .. (m - 1) :
                   /\ r.roleIdxMap[k] # EmptyString
                   /\ CountOf(r.roleIdxMap, LAMBDA n : n = r.roleIdxMap[k])
                         = CountOf(c.Roles, LAMBDA ro : ro.Name = r.roleIdxMap[k])
            /\ \A k \in m .. (maxRoles - 1) : r.roleIdxMap[k] = EmptyString

(* two roles declared in descending order of their names have been built,  *)
(* eighteen slots stay unused                                              *)
C14_Witness ==
    /\ pc = "built"
    /\ Len(c.Roles) = 2
    /\ c.Roles[1].Name > c.Roles[2].Name
    /\ r.roleIdxMap[0] = c.Roles[2].Name
    /\ r.roleIdxMap[1] = c.Roles[1].Name

(* some grant on "*" of a role called role lists action *)
WildcardGranted(cfg, role, action) ==
    \E i \in DOMAIN cfg.Roles :
        /\ cfg.Roles[i].Name = role
        /\ \E j \in DOMAIN cfg.Roles[i].Resources :
              /\ cfg.Roles[i].Resources[j].Name = allResources
              /\ action \in Elems(cfg.Roles[i].Resources[j].Actions)

(* the index of a role: the first slot of roleIdxMap holding its name *)
RoleIdx(rb, role) ==
    CHOOSE k \in DOMAIN rb.roleIdxMap :
        /\ rb.roleIdxMap[k] = role
        /\ \A l \in 0 .. (k - 1) : rb.roleIdxMap[l] # role

(* C15: when a role has a grant on "*" that lists a recognized action A,    *)
(* the built cell accessMap[roleIdx * maxActions + offset(A)] has all       *)
(* maxResources bits set, and check(role, resource, A) returns (true, nil)  *)
(* for every resource name that resourceIdxMap holds.                       *)
C15_WildcardGrantsEveryResource ==
    /\ r # NoRbac =>
           \A i \in DOMAIN c.Roles : \A A \in HTTPActions :
               WildcardGranted(c, c.Roles[i].Name, A) =>
                   r.accessMap[RoleIdx(r, c.Roles[i].Name) * maxActions
                                  + getHTTPActionOffset(A)]
                       = 0 .. (maxResources - 1)
    /\ (/\ Checked
        /\ call[3] \in HTTPActions
        /\ WildcardGranted(c, call[1], call[3])
        /\ \E k \in DOMAIN r.resourceIdxMap : r.resourceIdxMap[k] = call[2])
           => ret = Result(TRUE, NoError)

(* a role whose only grant is DELETE on "*" was asked about a listed       *)
(* resource that no grant names, and got (true, nil)                       *)
C15_Witness ==
    /\ Checked
    /\ Len(c.Roles) = 1
    /\ Len(c.Roles[1].Resources) = 1
    /\ c.Roles[1].Resources[1].Name = allResources
    /\ call = <<c.Roles[1].Name, 3, "DELETE">>
    /\ 3 \in Elems(c.Resources)
    /\ ret = Result(TRUE, NoError)

(* C16: once buildFromConfig has returned, no element of roleIdxMap,        *)
(* resourceIdxMap or accessMap ever changes, whatever calls of check run    *)
(* and however their steps interleave, and every call that ends has the     *)
(* result check gives for its arguments when run alone on the model.        *)
C16_ModelImmutableUnderChecks ==
    /\ [][r # NoRbac => r' = r]_vars
    /\ [](\A t \in DOMAIN threads :
             threads[t].at \in {"returned", "panicked"} =>
                 threads[t].ret = check(r, threads[t].role, threads[t].resource,
                                        threads[t].action))

(* two calls are under way at once: one has its result, (true, nil), while *)
(* the other, for another role, is between its two scans                   *)
C16_Witness ==
    /\ pc = "built"
    /\ DOMAIN threads = Callers
    /\ threads[1].at = "returned"
    /\ threads[1].ret = Result(TRUE, NoError)
    /\ threads[2].at = "resources"
    /\ threads[2].role # threads[1].role

(* C17: in the build of an accepted config, the turn of the loop that takes *)
(* a role of index k changes only the cells k * maxActions ..               *)
(* k * maxActions + maxActions - 1 of accessMap; every other cell, of       *)
(* another role or of an unused slot, is as before, whatever the actions of *)
(* the role's grants are.                                                   *)
C17_RoleWritesOwnRowOnly ==
    [][(pc = "building" /\ rolePos \in DOMAIN c.Roles) =>
          LET k == RoleIdx(r, c.Roles[rolePos].Name)
          IN  \A cell \in DOMAIN r.accessMap :
                  cell \notin (k * maxActions) .. (k * maxActions + maxActions - 1)
                      => r'.accessMap[cell] = r.accessMap[cell]]_vars

(* C18: empty action strings contribute nothing. Once a policy is built,    *)
(* the policy with one more grant on "*" or on a listed resource whose      *)
(* actions are none or only "", or with one more "" among the actions of a  *)
(* grant, is accepted and built into the same model.                        *)
C18_BlankActionsContributeNothing ==
    pc \in {"failed again", "panicked again", "built again"}
        => (pc = "built again" /\ r2 = r)

(* a role granted DELETE on "*" got a second grant, on a named resource    *)
(* with two blank actions: both models are built and "*" still shows       *)
C18_Witness ==
    /\ pc = "built again"
    /\ Len(c.Roles[1].Resources) = 1
    /\ c.Roles[1].Resources[1] = [Name |-> allResources, Actions |-> <<"DELETE">>]
    /\ c2.Roles[1].Resources =
           <<c.Roles[1].Resources[1], [Name |-> 2, Actions |-> <<"", "">>]>>
    /\ r2.accessMap[4] = allResourceAccess

(* C19: within a role the grants accumulate and their order does not        *)
(* matter. Once a policy with recognized actions is built, the policy with  *)
(* the grants of a role reordered, the actions of a grant reordered or a    *)
(* grant repeated is built into the same accessMap; and in a built model    *)
(* the bit of every granted (role, action, resource) is set, so no later    *)
(* grant cleared it, every bit where the grant is on "*".                   *)
C19_GrantsAccumulateInAnyOrder ==
    /\ (pc \in {"failed again", "panicked again", "built again"}
           /\ RecognizedActionsOnly(c))
           => (pc = "built again" /\ r2.accessMap = r.accessMap)
    /\ (r # NoRbac /\ RecognizedActionsOnly(c)) =>
           \A i \in DOMAIN c.Roles : \A j \in DOMAIN c.Roles[i].Resources :
               \A A \in Elems(c.Roles[i].Resources[j].Actions) \cap HTTPActions :
                   LET cell == r.accessMap[RoleIdx(r, c.Roles[i].Name) * maxActions
                                              + getHTTPActionOffset(A)]
                       name == c.Roles[i].Resources[j].Name
                   IN  IF name = allResources
                       THEN cell = 0 .. (maxResources - 1)
                       ELSE \E k \in cell : r.resourceIdxMap[k] = name

(* a role granted GET on a named resource, then on "*", then on another    *)
(* named resource, and the same grants the other way round: both are built *)
(* and the GET cell has all bits                                           *)
C19_Witness ==
    /\ pc = "built again"
    /\ Len(c.Roles) = 1
    /\ Len(c.Roles[1].Resources) = 3
    /\ c.Roles[1].Resources[1] = [Name |-> 2, Actions |-> <<"GET">>]
    /\ c.Roles[1].Resources[2] = [Name |-> allResources, Actions |-> <<"GET">>]
    /\ c.Roles[1].Resources[3].Name = 3
    /\ c2.Roles[1].Resources[1] = c.Roles[1].Resources[3]
    /\ c2.Roles[1].Resources[3] = c.Roles[1].Resources[1]
    /\ r2.accessMap[0] = allResourceAccess

(* C20: buildFromConfig leaves the policy it is given unchanged: after the  *)
(* build every grant's actions are the same elements in the same order as   *)
(* before, also when some of them are "".                                   *)
C20_BuildLeavesPolicyUnchanged ==
    [][pc = "validated" =>
          /\ DOMAIN c'.Roles = DOMAIN c.Roles
          /\ \A i \in DOMAIN c.Roles :
                 /\ DOMAIN c'.Roles[i].Resources = DOMAIN c.Roles[i].Resources
                 /\ \A j \in DOMAIN c.Roles[i].Resources :
                        c'.Roles[i].Resources[j].Actions
                            = c.Roles[i].Resources[j].Actions]_vars

(* C21: check returns true only for the name of a declared role: for every *)
(* other string, "" (what the unused slots of roleIdxMap hold) included,   *)
(* and for every resource and action, check does not return true.          *)
C21_OnlyDeclaredRolesGetAccess ==
    (Checked /\ ~DeclaredRole(c, call[1]))
        => ~(ret.kind = "return" /\ ret.access)

(* two or more roles of the config have this name *)
DuplicateRole(cfg, name) ==
    \E i, j \in DOMAIN cfg.Roles :
        i # j /\ cfg.Roles[i].Name = name /\ cfg.Roles[j].Name = name

(* slot k of roleIdxMap repeats the name of the slot before it *)
DuplicateSlot(rb, k) ==
    /\ k - 1 \in DOMAIN rb.roleIdxMap
    /\ rb.roleIdxMap[k] # EmptyString
    /\ rb.roleIdxMap[k] = rb.roleIdxMap[k - 1]

(* C22: when an accepted config has two or more roles of the same name,    *)
(* all their grants go to the row of the first sorted slot of that name:   *)
(* the rows of the other slots of the name stay all zero, check of the     *)
(* name and a listed resource returns (true, nil) exactly for the union of *)
(* the grants of the roles of that name, and no check reads a cell of the  *)
(* rows of the other slots.                                                *)
C22_DuplicateRolesShareFirstRow ==
    /\ r # NoRbac =>
           \A k \in DOMAIN r.roleIdxMap :
               DuplicateSlot(r, k) =>
                   \A a \in 0 .. (maxActions - 1) :
                       r.accessMap[k * maxActions + a] = {}
    /\ (Checked /\ DuplicateRole(c, call[1]) /\ call[2] \in UniqueResources(c))
           => (ret = Result(TRUE, NoError)
                  <=> Granted(c, call[1], call[2], call[3]))
    /\ (Checked /\ ret.kind = "return" /\ ret.err = NoError)
           => ~DuplicateSlot(r, (RoleIdx(r, call[1]) * maxActions
                                   + getHTTPActionOffset(call[3])) \div maxActions)

====
